---- MODULE Spec2Model ----
(***************************************************************************)
(* A model of node-box-sdk: the Box client object of lib/box-sdk.js        *)
(* (construction, the connection registry, the passport callback, the      *)
(* startup token refresh and stopServer) and the folder resource methods   *)
(* that are mixed into Connection.                                         *)
(***************************************************************************)
EXTENDS Integers, Sequences, FiniteSets, TLC

VARIABLES
    phase,        \* "new" | "standalone" | "delegated" | "threw": how Box(opts) ended
    box,          \* the Box instance's own configuration fields
    connections,  \* self.connections: account id -> Connection
    nextConn,     \* identity given to the next Connection constructed
    exchange,     \* the startup request.post to the token endpoint
    uncaught,     \* exception escaping an asynchronous handler ("none" if none)
    server,       \* this.server: "undefined" | "listening" | "closed"
    sockets,      \* this.sockets: socket id -> "open" | "destroyed"
    stopCall,     \* what the last stopServer(callback) did with its callback
    ret,          \* what the last registry operation returned / called back
    call          \* what the last folder resource method did

vars == <<phase, box, connections, nextConn, exchange, uncaught, server, sockets,
          stopCall, ret, call>>

(***************************************************************************)
(* Bounds of the model.                                                    *)
(***************************************************************************)
MaxSockets == 2
MaxCallbacks == 2

(***************************************************************************)
(* JavaScript values.  A string is its sequence of characters: a printable *)
(* ASCII character is written as itself, TAB, LF, CR and FF as "\t", "\n", *)
(* "\r" and "\f", and any other character as the name of its code point,   *)
(* "U+2003".                                                               *)
(***************************************************************************)
JSV(t, n, s) == [t |-> t, n |-> n, s |-> s, e |-> <<>>]
Undefined == JSV("undefined", 0, <<>>)
Null == JSV("null", 0, <<>>)
NaN == JSV("nan", 0, <<>>)
Num(n) == JSV("num", n, <<>>)
Str(s) == JSV("str", 0, s)
\* A plain object ({...}) with no toString of its own.
Obj(k) == JSV("obj", k, <<>>)
\* An anonymous function, function () {}.
Fn(k) == JSV("fn", k, <<>>)
\* new Error(message)
Err(k, message) == JSV("error", k, message)
\* An array of numbers, [80] or [8080, 1].
Arr(elems) == [t |-> "arr", n |-> 0, s |-> <<>>, e |-> elems]
\* new Number(n)
NumObj(n) == JSV("numobj", n, <<>>)
\* A property that an object literal does not carry.
Absent == JSV("absent", 0, <<>>)

\* JavaScript truthiness, as used by `!x`, `if (x)` and `x || y`.
Truthy(v) ==
    CASE v.t = "str" -> v.s # <<>>
      [] v.t = "num" -> v.n # 0
      [] v.t \in {"obj", "fn", "error", "arr", "numobj"} -> TRUE
      [] OTHER -> FALSE

\* lodash _.isNumber: typeof value == 'number', which NaN satisfies, or a
\* Number object.
IsNumber(v) == v.t \in {"num", "nan", "numobj"}
\* lodash _.isString
IsString(v) == v.t = "str"
\* lodash _.isObject: objects of every kind (plain objects, arrays, Error
\* and Number objects) and functions
IsObject(v) == v.t \in {"obj", "fn", "error", "arr", "numobj"}

Digits == <<"0", "1", "2", "3", "4", "5", "6", "7", "8", "9">>
IsDigit(c) == \E i \in 1..10 : Digits[i] = c
DigitVal(c) == (CHOOSE i \in 1..10 : Digits[i] = c) - 1

RECURSIVE NatChars(_)
NatChars(n) ==
    IF n < 10 THEN <<Digits[n + 1]>>
    ELSE NatChars(n \div 10) \o <<Digits[(n % 10) + 1]>>

\* Number.prototype.toString() / String(number)
NumChars(v) ==
    IF v.t = "nan" THEN <<"N", "a", "N">>
    ELSE IF v.n < 0 THEN <<"-">> \o NatChars(0 - v.n)
    ELSE NatChars(v.n)

\* Array.prototype.join(','), on an array of numbers.
RECURSIVE Join(_)
Join(elems) ==
    IF elems = <<>> THEN <<>>
    ELSE IF Len(elems) = 1 THEN NumChars(Num(Head(elems)))
    ELSE NumChars(Num(Head(elems))) \o <<",">> \o Join(Tail(elems))

\* The ToString conversion parseInt applies to its argument first.  An
\* object goes through its toString: Object.prototype's for a plain object,
\* the source text for a function, name and message for an Error, join for
\* an array and the number's own for a Number object.
ToChars(v) ==
    CASE v.t = "str" -> v.s
      [] v.t \in {"num", "nan", "numobj"} -> NumChars(v)
      [] v.t = "null" -> <<"n", "u", "l", "l">>
      [] v.t = "obj" -> <<"[", "o", "b", "j", "e", "c", "t", " ",
                          "O", "b", "j", "e", "c", "t", "]">>
      [] v.t = "fn" -> <<"f", "u", "n", "c", "t", "i", "o", "n", " ",
                         "(", ")", " ", "{", "}">>
      [] v.t = "error" -> <<"E", "r", "r", "o", "r">> \o
                          (IF v.s = <<>> THEN <<>> ELSE <<":", " ">> \o v.s)
      [] v.t = "arr" -> Join(v.e)
      [] OTHER -> <<"u", "n", "d", "e", "f", "i", "n", "e", "d">>

\* StrWhiteSpaceChar, the characters parseInt strips from the front of its
\* input: the white space TAB, VT, FF, SP, NBSP, ZWNBSP and the space
\* separators of Unicode, and the line terminators LF, CR, LS and PS.
WhiteSpace ==
    {"\t", "U+000B", "\f", " ", "U+00A0", "U+FEFF",
     "U+1680", "U+2000", "U+2001", "U+2002", "U+2003", "U+2004", "U+2005",
     "U+2006", "U+2007", "U+2008", "U+2009", "U+200A", "U+202F", "U+205F",
     "U+3000",
     "\n", "\r", "U+2028", "U+2029"}

RECURSIVE SkipSpace(_)
SkipSpace(cs) ==
    IF cs # <<>> /\ Head(cs) \in WhiteSpace THEN SkipSpace(Tail(cs)) ELSE cs

RECURSIVE DigitPrefix(_)
DigitPrefix(cs) ==
    IF cs # <<>> /\ IsDigit(Head(cs)) THEN <<Head(cs)>> \o DigitPrefix(Tail(cs))
    ELSE <<>>

RECURSIVE DigitsValue(_, _)
DigitsValue(cs, acc) ==
    IF cs = <<>> THEN acc ELSE DigitsValue(Tail(cs), acc * 10 + DigitVal(Head(cs)))

\* parseInt(v, 10): leading white space, an optional sign, then the longest
\* run of decimal digits; NaN when there is no digit.
parseInt(v) ==
    LET cs == SkipSpace(ToChars(v))
        neg == cs # <<>> /\ Head(cs) = "-"
        body == IF cs # <<>> /\ Head(cs) \in {"-", "+"} THEN Tail(cs) ELSE cs
        ds == DigitPrefix(body)
    IN  IF ds = <<>> THEN NaN
        ELSE Num(IF neg THEN 0 - DigitsValue(ds, 0) ELSE DigitsValue(ds, 0))

(***************************************************************************)
(* Inputs.                                                                 *)
(***************************************************************************)
\* Account identifiers: an e-mail address (box-sdk.js:119), 'ehgt', the key
\* the token refresh handler looks up, and a string that is also the name of
\* a property every object inherits.
EHGT == "ehgt"
Accounts == {EHGT, "ann@example.org", "constructor"}

ClientIds == {Undefined, Str(<<>>), Str(<<"c", "i", "d">>)}
ClientSecrets == {Undefined, Str(<<>>), Str(<<"s", "e", "c">>)}
Ports == {Undefined, Num(9999), Str(<<"8", "0", "8", "0">>), Str(<<"8", "0", "x">>),
          Str(<<"\t", "8", "0">>), Str(<<"U+2003", "8", "0">>),
          Str(<<"U+00E9", "8", "0">>), Str(<<"a", "b", "c">>), Arr(<<80>>),
          Arr(<<8080, 1>>), NumObj(80), Obj(1)}
Hosts == {Undefined, Str(<<"b", "o", "x">>)}
RefreshTokens == {Undefined, Str(<<"R", "0">>)}

NoOpts == [given |-> FALSE, client_id |-> Undefined, client_secret |-> Undefined,
           port |-> Undefined, host |-> Undefined, refresh_token |-> Undefined]
OptsDomain ==
    {NoOpts} \cup [given : {TRUE}, client_id : ClientIds, client_secret : ClientSecrets,
                   port : Ports, host : Hosts, refresh_token : RefreshTokens]

\* Token records: the argument of _setTokens, and the body of a token response.
Tokens(a, r, e) == [access_token |-> a, refresh_token |-> r, error |-> e]
NoTokens == Tokens(Undefined, Undefined, Undefined)
GrantBody == Tokens(Str(<<"T", "9">>), Str(<<"R", "9">>), Undefined)
ErrorBody == Tokens(Undefined, Undefined, Str(<<"i", "n", "v", "a", "l", "i", "d">>))
TransportError == Err(1, <<>>)
\* (err, body) pairs the transport can hand to the completion handler.
Responses == {<<TransportError, NoTokens>>, <<Null, GrantBody>>, <<Null, ErrorBody>>}

AccessTokens == {Str(<<"T", "1">>), Str(<<"T", "2">>)}
PassportRefreshTokens == {Str(<<"R", "1">>)}

(***************************************************************************)
(* Connection (lib/connector.js), as far as box-sdk.js drives it.          *)
(***************************************************************************)
\* The callbacks callers pass to ready().
Callbacks == 1..MaxCallbacks

\* new Connection(box, email): an AccountSession with no tokens yet, nobody
\* waiting on it and no ready() callback invoked.
NewConnection(id, email) ==
    [id |-> id, email |-> email, tokens |-> NoTokens, given |-> FALSE, events |-> {},
     state |-> "UNSET", waiters |-> {}, notified |-> [cb \in Callbacks |-> <<>>]]

\* Every waiting ready() callback is invoked with `arg` and deregistered.
NotifyWaiters(conn, arg) ==
    [conn EXCEPT !.notified = [cb \in Callbacks |->
                                  IF cb \in conn.waiters THEN @[cb] \o <<arg>>
                                  ELSE @[cb]],
                 !.waiters = {}]

\* connection._setTokens(tokens): the session is handed `tokens`, becomes
\* READY and its waiters are called with no error.
SetTokens(conn, tokens) ==
    [NotifyWaiters(conn, "ok") EXCEPT !.tokens = tokens, !.given = TRUE,
                                      !.state = "READY"]

\* connection.emit(event, err): 'tokens.error' puts the session in ERROR and
\* reaches the one-shot listeners ready() registered, with the error.
Emit(conn, event) ==
    IF event = "tokens.error"
    THEN [NotifyWaiters(conn, "error") EXCEPT !.events = @ \cup {event},
                                             !.state = "ERROR"]
    ELSE [conn EXCEPT !.events = @ \cup {event}]

\* connection.ready(callback): called at once when the session is READY,
\* otherwise registered for the next READY or ERROR transition.
Ready(conn, cb) ==
    IF conn.state = "READY"
    THEN [conn EXCEPT !.notified[cb] = @ \o <<"ok">>]
    ELSE [conn EXCEPT !.waiters = @ \cup {cb}]

(***************************************************************************)
(* Box.                                                                    *)
(***************************************************************************)
NoBox == [client_id |-> Undefined, client_secret |-> Undefined, port |-> Undefined,
          host |-> Undefined, refresh_token |-> Undefined]
NoForm == [client_id |-> Undefined, client_secret |-> Undefined,
           grant_type |-> Undefined, refresh_token |-> Undefined]
NoExchange == [state |-> "none", form |-> NoForm, err |-> Undefined, body |-> NoTokens]
NoStop == [made |-> FALSE, cb |-> <<>>]
\* The identity recorded for a returned value that is not a Connection.
NotAConnection == 0
NoRet ==
    [op |-> "none", email |-> "", conn |-> NotAConnection, created |-> FALSE,
     args |-> <<>>, done |-> <<>>, threw |-> "none"]

LOCALHOST == Str(<<"l", "o", "c", "a", "l", "h", "o", "s", "t">>)
REFRESH_TOKEN == Str(<<"r", "e", "f", "r", "e", "s", "h", "_", "t", "o", "k", "e", "n">>)

\* Box.init(opts): the phase construction ends in, the instance's fields and
\* the token request it posts.
BoxInit(opts) ==
    IF ~opts.given THEN [phase |-> "delegated", box |-> NoBox, exchange |-> NoExchange]
    ELSE IF ~Truthy(opts.client_id) \/ ~Truthy(opts.client_secret)
    THEN [phase |-> "threw", box |-> NoBox, exchange |-> NoExchange]
    ELSE LET port == parseInt(opts.port) IN
         IF ~IsNumber(port)
         THEN [phase |-> "threw", box |-> NoBox, exchange |-> NoExchange]
         ELSE [phase |-> "standalone",
               box |-> [client_id |-> opts.client_id,
                        client_secret |-> opts.client_secret,
                        port |-> port,
                        host |-> IF Truthy(opts.host) THEN opts.host ELSE LOCALHOST,
                        refresh_token |-> opts.refresh_token],
               exchange |-> [state |-> "inflight",
                             form |-> [client_id |-> opts.client_id,
                                       client_secret |-> opts.client_secret,
                                       grant_type |-> REFRESH_TOKEN,
                                       refresh_token |-> opts.refresh_token],
                             err |-> Undefined, body |-> NoTokens]]

\* this.connections is a plain object literal ({}): a lookup of a key it
\* does not own falls through to Object.prototype, whose properties are
\* functions or objects, all truthy.
ObjectPrototype ==
    {"constructor", "toString", "toLocaleString", "valueOf", "hasOwnProperty",
     "isPrototypeOf", "propertyIsEnumerable", "__proto__", "__defineGetter__",
     "__defineSetter__", "__lookupGetter__", "__lookupSetter__"}

\* Box.getConnection(email): the value returned and the registry after.
\* this.connections[email] is returned when truthy: the Connection stored
\* under email, or else what Object.prototype holds under that name, which is
\* not a Connection; only otherwise is a Connection constructed and stored.
GetConnection(conns, next, email) ==
    IF email \in DOMAIN conns
    THEN [conn |-> conns[email].id, created |-> FALSE, next |-> next,
          connections |-> conns]
    ELSE IF email \in ObjectPrototype
    THEN [conn |-> NotAConnection, created |-> FALSE, next |-> next,
          connections |-> conns]
    ELSE [conn |-> next, created |-> TRUE, next |-> next + 1,
          connections |-> [e \in DOMAIN conns \cup {email} |->
                              IF e = email THEN NewConnection(next, email)
                              ELSE conns[e]]]

\* The callback authenticate() returns, called with (access_token,
\* refresh_token, profile, done) where profile.login = login: the registry
\* after it, the calls it made of done and the exception it threw.  On a
\* value that is not a Connection, connection._setTokens is undefined and the
\* call throws a TypeError before done is reached.
AuthCallback(conns, next, access_token, refresh_token, login) ==
    LET r == GetConnection(conns, next, login)
        tokens == Tokens(access_token, refresh_token, Undefined)
    IN  IF r.conn = NotAConnection
        THEN [connections |-> r.connections, next |-> r.next, conn |-> r.conn,
              created |-> r.created, done |-> <<>>, threw |-> "TypeError"]
        ELSE [connections |-> [r.connections EXCEPT ![login] = SetTokens(@, tokens)],
              next |-> r.next, conn |-> r.conn, created |-> r.created,
              done |-> <<[err |-> Null, profile |-> login]>>, threw |-> "none"]

\* A stopServer that closes the server and calls back without destroying
\* the tracked sockets.
StopServerLeavesSockets(srv, socks, legacy) ==
    IF srv = "undefined" THEN [server |-> srv, sockets |-> socks, cb |-> <<>>]
    ELSE IF srv = "closed" /\ legacy
    THEN [server |-> srv, sockets |-> socks, cb |-> <<"error">>]
    ELSE [server |-> "closed", sockets |-> socks, cb |-> <<"ok">>]

\* Box.stopServer(callback).  server.close() throws on a server that is not
\* listening when `legacy` (the http.Server of the node releases of the time);
\* later releases report that to close's own callback instead.
StopServer(srv, socks, legacy) ==
    IF srv = "undefined" THEN [server |-> srv, sockets |-> socks, cb |-> <<>>]
    ELSE IF srv = "closed" /\ legacy
    THEN [server |-> srv, sockets |-> socks, cb |-> <<"error">>]
    ELSE [server |-> "closed",
          sockets |-> [s \in DOMAIN socks |-> "destroyed"],
          cb |-> <<"ok">>]

(***************************************************************************)
(* The folder resource methods of Connection.                              *)
(***************************************************************************)
ArgValues == {Undefined, Null, NaN, Num(0), Num(7), Str(<<>>),
              Str(<<"d", "o", "c", "s">>), Obj(1), Err(2, <<"x">>), Arr(<<7>>),
              NumObj(7)}
\* What a caller passes as done: a function, or something that cannot be
\* called (nothing at all, or an object).
Dones == {Fn(1), Fn(2), Undefined, Obj(3)}
HeaderValues == {Undefined, Obj(2)}

FOLDERS == Str(<<"f", "o", "l", "d", "e", "r", "s">>)
ITEMS == Str(<<"i", "t", "e", "m", "s">>)
COPY == Str(<<"c", "o", "p", "y">>)
COLLABORATIONS ==
    Str(<<"c", "o", "l", "l", "a", "b", "o", "r", "a", "t", "i", "o", "n", "s">>)
TRASH == Str(<<"t", "r", "a", "s", "h">>)

ID_MUST_BE_SPECIFIED == "id must be specified."
FIELDS_REQUIRED == "An fields object must be provided."
NAME_PARENT_REQUIRED == "Invalid params. Required - name: string, parent_id: number"
ID_PARENT_REQUIRED == "Invalid params. Required - id: number, parent_id: number"

\* A request body: a value handed through (null, or the caller's fields), or
\* an object literal with the properties that were set on it.
ValueBody(v) ==
    [kind |-> "value", value |-> v, name |-> Absent, parent_id |-> Absent,
     shared_link |-> Absent]
LiteralBody(name, parent_id, shared_link) ==
    [kind |-> "literal", value |-> Absent, name |-> name, parent_id |-> parent_id,
     shared_link |-> shared_link]

\* The call expression done(...) succeeds only on a function.
Callable(v) == v.t = "fn"

\* return done(new Error(message)): calling a done that is not a function
\* throws a TypeError out of the method instead.
Fail(done, message) ==
    IF Callable(done)
    THEN [doneCalls |-> <<[fn |-> done, err |-> message]>>, requests |-> <<>>,
          threw |-> "none"]
    ELSE [doneCalls |-> <<>>, requests |-> <<>>, threw |-> "TypeError"]

\* this.request(path, method, done, query, body, null, headers)
Request(path, method, done, query, body, headers) ==
    [doneCalls |-> <<>>,
     requests |-> <<[path |-> path, method |-> method, done |-> done, query |-> query,
                     body |-> body, extra |-> Null, headers |-> headers]>>,
     threw |-> "none"]

GetFolderInfo(id, done, headers) ==
    IF ~IsNumber(id) THEN Fail(done, ID_MUST_BE_SPECIFIED)
    ELSE Request(<<FOLDERS, id>>, "get", done, Null, ValueBody(Null), headers)

GetFolderItems(id, opts, done, headers) ==
    IF ~IsNumber(id) THEN Fail(done, ID_MUST_BE_SPECIFIED)
    ELSE Request(<<FOLDERS, id, ITEMS>>, "get", done, opts, ValueBody(Null), headers)

CreateFolder(name, parent_id, done, headers) ==
    IF ~IsString(name) \/ ~IsNumber(parent_id) THEN Fail(done, NAME_PARENT_REQUIRED)
    ELSE Request(<<FOLDERS>>, "post", done, Null,
                 LiteralBody(name, Str(NumChars(parent_id)), Absent), headers)

\* An updateFolder whose fields check calls done without returning.
UpdateFolderFallsThrough(id, fields, done, headers) ==
    IF ~IsNumber(id) THEN Fail(done, ID_MUST_BE_SPECIFIED)
    ELSE [doneCalls |-> IF ~IsObject(fields)
                        THEN Fail(done, FIELDS_REQUIRED).doneCalls ELSE <<>>,
          requests |-> Request(<<FOLDERS, id>>, "put", done, Null, ValueBody(fields),
                               headers).requests,
          threw |-> IF ~IsObject(fields)
                    THEN Fail(done, FIELDS_REQUIRED).threw ELSE "none"]

UpdateFolder(id, fields, done, headers) ==
    IF ~IsNumber(id) THEN Fail(done, ID_MUST_BE_SPECIFIED)
    ELSE IF ~IsObject(fields) THEN Fail(done, FIELDS_REQUIRED)
    ELSE Request(<<FOLDERS, id>>, "put", done, Null, ValueBody(fields), headers)

DeleteFolder(id, opts, done, headers) ==
    IF ~IsNumber(id) THEN Fail(done, ID_MUST_BE_SPECIFIED)
    ELSE Request(<<FOLDERS, id>>, "delete", done, opts, ValueBody(Null), headers)

CopyFolder(id, parent_id, name, done, headers) ==
    IF ~IsNumber(id) \/ ~IsNumber(parent_id) THEN Fail(done, ID_PARENT_REQUIRED)
    ELSE Request(<<FOLDERS, id, COPY>>, "post", done, Null,
                 LiteralBody(IF Truthy(name) THEN name ELSE Absent,
                             Str(NumChars(parent_id)), Absent),
                 headers)

FolderSharedLink(id, opts, done, headers) ==
    IF ~IsNumber(id) THEN Fail(done, ID_MUST_BE_SPECIFIED)
    ELSE Request(<<FOLDERS, id>>, "put", done, Null,
                 LiteralBody(Absent, Absent, opts), headers)

GetFolderCollaborations(id, done, headers) ==
    IF ~IsNumber(id) THEN Fail(done, ID_MUST_BE_SPECIFIED)
    ELSE Request(<<FOLDERS, id, COLLABORATIONS>>, "get", done, Null, ValueBody(Null),
                 headers)

GetTrashedItems(opts, done, headers) ==
    Request(<<FOLDERS, TRASH, ITEMS>>, "get", done, opts, ValueBody(Null), headers)

GetTrashedFolder(id, done, headers) ==
    IF ~IsNumber(id) THEN Fail(done, ID_MUST_BE_SPECIFIED)
    ELSE Request(<<FOLDERS, id, TRASH>>, "get", done, Null, ValueBody(Null), headers)

DeleteTrashedFolder(id, done, headers) ==
    IF ~IsNumber(id) THEN Fail(done, ID_MUST_BE_SPECIFIED)
    ELSE Request(<<FOLDERS, id, TRASH>>, "delete", done, Null, ValueBody(Null), headers)

RestoreTrashedFolder(id, name, parent_id, done, headers) ==
    IF ~IsString(name) \/ ~IsNumber(parent_id) THEN Fail(done, NAME_PARENT_REQUIRED)
    ELSE Request(<<FOLDERS, id>>, "post", done, Null,
                 LiteralBody(IF Truthy(name) THEN name ELSE Absent,
                             IF Truthy(parent_id) THEN Str(NumChars(parent_id))
                             ELSE Absent,
                             Absent),
                 headers)

\* One call of a resource method: its arguments (Absent for a parameter the
\* method does not have) and what it did.
Call(method, id, name, parent_id, opts, done, headers, outcome) ==
    [method |-> method, id |-> id, name |-> name, parent_id |-> parent_id,
     opts |-> opts, done |-> done, headers |-> headers,
     doneCalls |-> outcome.doneCalls, requests |-> outcome.requests,
     threw |-> outcome.threw]
NoCall ==
    Call("none", Absent, Absent, Absent, Absent, Absent, Absent,
         [doneCalls |-> <<>>, requests |-> <<>>, threw |-> "none"])

Alive == phase \in {"standalone", "delegated"} /\ uncaught = "none"

Init ==
    /\ phase = "new"
    /\ box = NoBox
    /\ connections = <<>>
    /\ nextConn = 1
    /\ exchange = NoExchange
    /\ uncaught = "none"
    /\ server = "undefined"
    /\ sockets = <<>>
    /\ stopCall = NoStop
    /\ ret = NoRet
    /\ call = NoCall

init ==
    /\ phase = "new"
    /\ \E opts \in OptsDomain :
          LET r == BoxInit(opts) IN
          /\ phase' = r.phase
          /\ box' = r.box
          /\ exchange' = r.exchange
    /\ UNCHANGED <<connections, nextConn, uncaught, server, sockets, stopCall, ret, call>>

getConnection ==
    /\ Alive
    /\ \E email \in Accounts :
          LET r == GetConnection(connections, nextConn, email) IN
          /\ connections' = r.connections
          /\ nextConn' = r.next
          /\ ret' = [op |-> "getConnection", email |-> email, conn |-> r.conn,
                     created |-> r.created, args |-> <<>>, done |-> <<>>,
                     threw |-> "none"]
    /\ UNCHANGED <<phase, box, exchange, uncaught, server, sockets, stopCall, call>>

\* The callback authenticate() returns, invoked by the passport strategy.
authenticate ==
    /\ Alive
    /\ \E access_token \in AccessTokens, refresh_token \in PassportRefreshTokens,
          login \in Accounts :
          LET r == AuthCallback(connections, nextConn, access_token, refresh_token,
                                login)
          IN
          /\ connections' = r.connections
          /\ nextConn' = r.next
          /\ ret' = [op |-> "authenticate", email |-> login, conn |-> r.conn,
                     created |-> r.created,
                     args |-> <<access_token, refresh_token>>, done |-> r.done,
                     threw |-> r.threw]
    /\ UNCHANGED <<phase, box, exchange, uncaught, server, sockets, stopCall, call>>

\* connection.ready(callback), with a callback not yet passed to this Connection.
ready ==
    /\ Alive
    /\ \E email \in DOMAIN connections, cb \in Callbacks :
          /\ cb \notin connections[email].waiters
          /\ connections[email].notified[cb] = <<>>
          /\ connections' = [connections EXCEPT ![email] = Ready(@, cb)]
    /\ UNCHANGED <<phase, box, nextConn, exchange, uncaught, server, sockets, stopCall,
                   ret, call>>

\* The completion handler of the startup request.post.
tokenRefreshDone ==
    /\ Alive
    /\ exchange.state = "inflight"
    /\ \E resp \in Responses :
          LET err == resp[1]
              body == resp[2]
          IN
          /\ exchange' = [exchange EXCEPT !.state = "done", !.err = err, !.body = body]
          /\ IF EHGT \notin DOMAIN connections
             THEN /\ uncaught' = "TypeError"
                  /\ UNCHANGED connections
             ELSE /\ uncaught' = uncaught
                  /\ connections' =
                        [connections EXCEPT ![EHGT] =
                            IF Truthy(err) THEN Emit(@, "tokens.error")
                            ELSE SetTokens(@, body)]
    /\ UNCHANGED <<phase, box, nextConn, server, sockets, stopCall, ret, call>>

stopServer ==
    /\ Alive
    /\ \E legacy \in BOOLEAN :
          LET r == StopServer(server, sockets, legacy) IN
          /\ server' = r.server
          /\ sockets' = r.sockets
          /\ stopCall' = [made |-> TRUE, cb |-> r.cb]
    /\ UNCHANGED <<phase, box, connections, nextConn, exchange, uncaught, ret, call>>

(***************************************************************************)
(* The authorization listener of standalone mode (spec section 4.3).       *)
(***************************************************************************)
Sockets == 1..MaxSockets

startListener ==
    /\ Alive
    /\ phase = "standalone"
    /\ server = "undefined"
    /\ server' = "listening"
    /\ UNCHANGED <<phase, box, connections, nextConn, exchange, uncaught, sockets,
                   stopCall, ret, call>>

acceptSocket ==
    /\ Alive
    /\ server = "listening"
    /\ \E s \in Sockets \ DOMAIN sockets :
          sockets' = [k \in DOMAIN sockets \cup {s} |->
                         IF k = s THEN "open" ELSE sockets[k]]
    /\ UNCHANGED <<phase, box, connections, nextConn, exchange, uncaught, server,
                   stopCall, ret, call>>

Next == init \/ getConnection \/ authenticate \/ tokenRefreshDone \/ stopServer
Spec == Init /\ [][Next]_vars

NextReady == init \/ getConnection \/ ready \/ authenticate \/ tokenRefreshDone
SpecReady == Init /\ [][NextReady]_vars

NextListener == init \/ startListener \/ acceptSocket \/ stopServer
SpecListener == Init /\ [][NextListener]_vars

(***************************************************************************)
(* Calls of the folder resource methods on a Connection.                   *)
(***************************************************************************)
BoxVars == <<phase, box, connections, nextConn, exchange, uncaught, server, sockets,
             stopCall, ret>>

\* The methods keep no state of their own: what a call does depends on its
\* arguments alone, so each behaviour makes one call and `call` records it.
NotCalled == call.method = "none"

getFolderInfo ==
    /\ NotCalled
    /\ \E id \in ArgValues, done \in Dones, headers \in HeaderValues :
          call' = Call("getFolderInfo", id, Absent, Absent, Absent, done, headers,
                       GetFolderInfo(id, done, headers))
    /\ UNCHANGED BoxVars

getFolderItems ==
    /\ NotCalled
    /\ \E id \in ArgValues, opts \in ArgValues, done \in Dones, headers \in HeaderValues :
          call' = Call("getFolderItems", id, Absent, Absent, opts, done, headers,
                       GetFolderItems(id, opts, done, headers))
    /\ UNCHANGED BoxVars

createFolder ==
    /\ NotCalled
    /\ \E name \in ArgValues, parent_id \in ArgValues, done \in Dones,
          headers \in HeaderValues :
          call' = Call("createFolder", Absent, name, parent_id, Absent, done, headers,
                       CreateFolder(name, parent_id, done, headers))
    /\ UNCHANGED BoxVars

updateFolder ==
    /\ NotCalled
    /\ \E id \in ArgValues, fields \in ArgValues, done \in Dones,
          headers \in HeaderValues :
          call' = Call("updateFolder", id, Absent, Absent, fields, done, headers,
                       UpdateFolder(id, fields, done, headers))
    /\ UNCHANGED BoxVars

deleteFolder ==
    /\ NotCalled
    /\ \E id \in ArgValues, opts \in ArgValues, done \in Dones, headers \in HeaderValues :
          call' = Call("deleteFolder", id, Absent, Absent, opts, done, headers,
                       DeleteFolder(id, opts, done, headers))
    /\ UNCHANGED BoxVars

copyFolder ==
    /\ NotCalled
    /\ \E id \in ArgValues, parent_id \in ArgValues, name \in ArgValues, done \in Dones,
          headers \in HeaderValues :
          call' = Call("copyFolder", id, name, parent_id, Absent, done, headers,
                       CopyFolder(id, parent_id, name, done, headers))
    /\ UNCHANGED BoxVars

folderSharedLink ==
    /\ NotCalled
    /\ \E id \in ArgValues, opts \in ArgValues, done \in Dones, headers \in HeaderValues :
          call' = Call("folderSharedLink", id, Absent, Absent, opts, done, headers,
                       FolderSharedLink(id, opts, done, headers))
    /\ UNCHANGED BoxVars

getFolderCollaborations ==
    /\ NotCalled
    /\ \E id \in ArgValues, done \in Dones, headers \in HeaderValues :
          call' = Call("getFolderCollaborations", id, Absent, Absent, Absent, done,
                       headers, GetFolderCollaborations(id, done, headers))
    /\ UNCHANGED BoxVars

getTrashedItems ==
    /\ NotCalled
    /\ \E opts \in ArgValues, done \in Dones, headers \in HeaderValues :
          call' = Call("getTrashedItems", Absent, Absent, Absent, opts, done, headers,
                       GetTrashedItems(opts, done, headers))
    /\ UNCHANGED BoxVars

getTrashedFolder ==
    /\ NotCalled
    /\ \E id \in ArgValues, done \in Dones, headers \in HeaderValues :
          call' = Call("getTrashedFolder", id, Absent, Absent, Absent, done, headers,
                       GetTrashedFolder(id, done, headers))
    /\ UNCHANGED BoxVars

deleteTrashedFolder ==
    /\ NotCalled
    /\ \E id \in ArgValues, done \in Dones, headers \in HeaderValues :
          call' = Call("deleteTrashedFolder", id, Absent, Absent, Absent, done, headers,
                       DeleteTrashedFolder(id, done, headers))
    /\ UNCHANGED BoxVars

restoreTrashedFolder ==
    /\ NotCalled
    /\ \E id \in ArgValues, name \in ArgValues, parent_id \in ArgValues, done \in Dones,
          headers \in HeaderValues :
          call' = Call("restoreTrashedFolder", id, name, parent_id, Absent, done, headers,
                       RestoreTrashedFolder(id, name, parent_id, done, headers))
    /\ UNCHANGED BoxVars

NextFolders ==
    \/ getFolderInfo \/ getFolderItems \/ createFolder \/ updateFolder
    \/ deleteFolder \/ copyFolder \/ folderSharedLink \/ getFolderCollaborations
    \/ getTrashedItems \/ getTrashedFolder \/ deleteTrashedFolder
    \/ restoreTrashedFolder
SpecFolders == Init /\ [][NextFolders]_vars

(***************************************************************************)
(* Properties.                                                             *)
(***************************************************************************)
\* The registry proper: which Connection instance each account id names.
Registry == [e \in DOMAIN connections |-> connections[e].id]

\* C1: in every step, an account id that has a Connection keeps that very
\* instance (entries are never replaced or removed), getConnection and the
\* passport callback hand out the instance the registry holds, and a lookup
\* of an account id that already has an entry leaves the registry as it was.
C1_RegistryIdentityStable ==
    [][/\ \A e \in DOMAIN connections :
             e \in DOMAIN connections' /\ connections'[e].id = connections[e].id
       /\ ret'.op \in {"getConnection", "authenticate"} =>
             /\ ret'.email \in DOMAIN connections'
             /\ ret'.conn = connections'[ret'.email].id
       /\ (ret'.op = "getConnection" /\ ret'.email \in DOMAIN connections) =>
             Registry' = Registry]_vars

NumericIdMethods ==
    {"getFolderInfo", "getFolderItems", "updateFolder", "deleteFolder", "copyFolder",
     "folderSharedLink", "getFolderCollaborations", "getTrashedFolder",
     "deleteTrashedFolder", "restoreTrashedFolder"}

\* C2: a resource method with a numeric-id parameter, called with an id that
\* is not a number and a done that can be called, never calls request() and
\* reports a validation error through done, whatever the other arguments are.
C2_NonNumericIdNeverRequests ==
    (call.method \in NumericIdMethods /\ ~IsNumber(call.id) /\ Callable(call.done)) =>
        /\ call.requests = <<>>
        /\ Len(call.doneCalls) = 1
        /\ call.doneCalls[1].fn = call.done

\* C3: stopServer(callback) on a Client whose listener was never started
\* invokes the callback, with no error.
C3_StopNeverStartedCallsBack ==
    (stopCall.made /\ server = "undefined") => stopCall.cb = <<"ok">>

\* C4: for a Client constructed in standalone mode the listener exists, and
\* stopServer(callback) tears it down and invokes the callback.
C4_StandaloneStopCallsBack ==
    (phase = "standalone" /\ stopCall.made) =>
        /\ server = "closed"
        /\ Len(stopCall.cb) = 1

\* C5: when stopServer's callback has fired without error, the server has
\* been closed and every tracked socket has been destroyed.
C5_NoSocketOpenAfterStop ==
    stopCall.cb = <<"ok">> =>
        /\ server = "closed"
        /\ \A s \in DOMAIN sockets : sockets[s] = "destroyed"

\* C5 witness: a listener with two accepted sockets was stopped and the
\* callback fired without error.
C5_Witness ==
    /\ stopCall.cb = <<"ok">>
    /\ Cardinality(DOMAIN sockets) >= 2

\* C6: whatever the registry holds when the startup token exchange
\* completes, the completion handler does not throw and the outcome reaches
\* the target session (an event emitted on it, or tokens handed to it).
C6_ExchangeCompletionNeverThrows ==
    exchange.state = "done" =>
        /\ uncaught = "none"
        /\ EHGT \in DOMAIN connections
        /\ ("tokens.error" \in connections[EHGT].events \/ connections[EHGT].given)

\* C7: when the exchange completes without a transport error but with a
\* body that carries no access_token, the session is told of the error and
\* is not given that body as its tokens.
C7_ErrorBodyIsNotTokens ==
    (/\ exchange.state = "done"
     /\ uncaught = "none"
     /\ ~Truthy(exchange.err)
     /\ ~Truthy(exchange.body.access_token)) =>
        /\ "tokens.error" \in connections[EHGT].events
        /\ connections[EHGT].tokens # exchange.body

\* C8: construction posts the refresh-token exchange only in standalone
\* mode and only when a refresh_token was supplied.
C8_RefreshOnlyWithRefreshToken ==
    exchange.state # "none" =>
        /\ phase = "standalone"
        /\ Truthy(box.refresh_token)

\* C9: a Client produced in standalone mode has a non-empty client_id, a
\* non-empty client_secret and a port that is a number.
C9_StandaloneConfigValid ==
    phase = "standalone" =>
        /\ Truthy(box.client_id)
        /\ Truthy(box.client_secret)
        /\ box.port.t = "num"

\* C10: restoreTrashedFolder with a numeric id, and with name and parent_id
\* each either null or of its documented type, issues the restore request,
\* leaving the null fields out of the body, and reports no validation error.
C10_RestoreAcceptsNull ==
    (/\ call.method = "restoreTrashedFolder"
     /\ call.id.t = "num"
     /\ (call.name = Null \/ IsString(call.name))
     /\ (call.parent_id = Null \/ call.parent_id.t = "num")) =>
        /\ call.doneCalls = <<>>
        /\ Len(call.requests) = 1
        /\ call.name = Null => call.requests[1].body.name = Absent
        /\ call.parent_id = Null => call.requests[1].body.parent_id = Absent

\* The exchange failed: a transport error, or a body without access_token.
ExchangeFailed(x) == Truthy(x.err) \/ ~Truthy(x.body.access_token)

\* C11: no ready() callback is ever invoked twice, and when the token
\* exchange finishes every callback still waiting on its session is invoked
\* once: with no error when tokens arrived, with the error when it failed.
C11_WaitersNotifiedOnce ==
    [][/\ \A e \in DOMAIN connections' : \A cb \in Callbacks :
             Len(connections'[e].notified[cb]) <= 1
       /\ (exchange.state = "inflight" /\ exchange'.state = "done"
           /\ uncaught' = "none") =>
             \A cb \in connections[EHGT].waiters :
                connections'[EHGT].notified[cb] =
                   <<IF ExchangeFailed(exchange') THEN "error" ELSE "ok">>]_vars

\* C12: a step of the passport callback stores exactly the two tokens it was
\* given on the Connection registered for profile.login (created if it was
\* absent), leaves every other Connection as it was, and calls done once,
\* with (null, profile).
C12_AuthenticateSetsOnlyItsAccount ==
    [][authenticate =>
         LET login == ret'.email IN
         /\ ret'.op = "authenticate"
         /\ DOMAIN connections' = DOMAIN connections \cup {login}
         /\ connections'[login].id = ret'.conn
         /\ connections'[login].tokens = Tokens(ret'.args[1], ret'.args[2], Undefined)
         /\ \A e \in DOMAIN connections \ {login} : connections'[e] = connections[e]
         /\ ret'.done = <<[err |-> Null, profile |-> login]>>]_vars

FolderMethods == NumericIdMethods \cup {"createFolder", "getTrashedItems"}

ValidationMessages ==
    {ID_MUST_BE_SPECIFIED, FIELDS_REQUIRED, NAME_PARENT_REQUIRED, ID_PARENT_REQUIRED}

\* The call reported a validation error through done, once, and made no request.
RejectedOnly ==
    /\ Len(call.doneCalls) = 1
    /\ call.doneCalls[1].fn = call.done
    /\ call.doneCalls[1].err \in ValidationMessages
    /\ call.requests = <<>>

\* The call made one request, with the caller's done and headers, and did
\* not invoke done itself.
RequestedOnly ==
    /\ call.doneCalls = <<>>
    /\ Len(call.requests) = 1
    /\ call.requests[1].done = call.done
    /\ call.requests[1].headers = call.headers

\* C13 as claimed: one call of a folder resource method either reports a
\* validation error through done once and makes no request, or makes exactly
\* one request with the caller's done and headers and does not invoke done:
\* exactly one of the two, for every method and argument combination.
C13_DoneXorRequest ==
    call.method # "none" =>
        /\ call.method \in FolderMethods
        /\ RejectedOnly \/ RequestedOnly
        /\ ~(RejectedOnly /\ RequestedOnly)

\* The call threw a TypeError: done was not invoked and no request was made.
ThrewOnly ==
    /\ call.threw = "TypeError"
    /\ call.doneCalls = <<>>
    /\ call.requests = <<>>

\* C13 amended: for every method and argument combination, a call whose done
\* is a function does exactly one of the two (a validation error through done
\* and no request, or one request with the caller's done and headers and no
\* call of done) and throws nothing; a call whose done is not a function
\* either makes that one request or, where its validation fails, throws a
\* TypeError after doing neither.
C13_CallableDoneXorRequest ==
    call.method # "none" =>
        /\ call.method \in FolderMethods
        /\ Callable(call.done) =>
              /\ call.threw = "none"
              /\ RejectedOnly \/ RequestedOnly
              /\ ~(RejectedOnly /\ RequestedOnly)
        /\ ~Callable(call.done) =>
              /\ (RequestedOnly /\ call.threw = "none") \/ ThrewOnly
              /\ ~RejectedOnly

\* C13 witness: updateFolder with a numeric id and a fields argument that is
\* not an object was rejected through the caller's done, with no request.
C13_Witness ==
    /\ call.method = "updateFolder"
    /\ IsNumber(call.id)
    /\ ~IsObject(call.opts)
    /\ call.done = Fn(2)
    /\ call.headers = Obj(2)
    /\ RejectedOnly

====
